---- MODULE Spec2Model ----
(***************************************************************************)
(* Model of ddft/maths/lsymeig.py: the differentiable eigendecomposition   *)
(* entry point lsymeig_torchfcn (forward / backward) and the three forward *)
(* strategies lanczos, davidson and exacteig.                              *)
(*                                                                         *)
(* Tensors are modelled by their shapes (number of columns, rows) and by   *)
(* the provenance of their content (which generator state they were drawn  *)
(* from); the operator A is an external capability, modelled by its shape, *)
(* its own parameters and the deviations its Ritz values show.             *)
(***************************************************************************)
EXTENDS Integers, Sequences, FiniteSets, TLC

VARIABLES
    A,            \* the operator handle (shape, parameters, numerical behaviour)
    neig,         \* requested number of eigenpairs
    params,       \* the parameter tuple (sequence of tensors)
    fwd_options,  \* forward configuration mapping
    rng,          \* state of the process-wide random generator
    pc,           \* position in the call
    run,          \* 1: first call of lsymeig, 2: the repeated call
    strategy,     \* the function forward dispatched to
    loc,          \* locals of the running strategy
    calls,        \* number of calls made on the operator / the generator
    outcome,      \* what the forward call returned or raised
    first,        \* outcome of the first call, kept for comparison
    rng_before,   \* generator state when the current call was entered
    ctx,          \* what forward saved for backward
    bwd,          \* state of the backward pass
    cg,           \* state of a conjgrad solve
    vec,          \* the vectors of the backward pass, when followed by value
    latch,        \* the preconditioner shift of davidson, when followed by value
    atm,          \* LibcintWrapper: the charge column of the atom table
    env,          \* LibcintWrapper: the lists built by the constructor
    basis         \* a CGTOBasis object

vars == <<A, neig, params, fwd_options, rng, pc, run, strategy, loc, calls,
          outcome, first, rng_before, ctx, bwd, cg, vec, latch, atm, env, basis>>

inputs == <<A, neig, params, fwd_options>>

(* the variables of the eigendecomposition call, and those of the parts of *)
(* the call that are followed on their own                                 *)
main == <<A, neig, params, fwd_options, rng, pc, run, strategy, loc, calls,
          outcome, first, rng_before, ctx, bwd>>
sub == <<cg, vec, latch, atm, env, basis>>

(* the objects of dqc (LibcintWrapper, CGTOBasis) *)
dqc == <<atm, env, basis>>

----------------------------------------------------------------------------
(* Bounds of the model *)
MaxN == 3          \* largest operator dimension
MaxNiter == 3      \* largest max_niter
MaxNguess == 2     \* largest nguess
MaxBatch == 2      \* largest batch size
RngMod == 65536    \* number of generator states

(* Program constants *)
Seed == 12421      \* torch.manual_seed(12421)
ntest == 20        \* number of probe vectors of davidson
min_eps == 1       \* the tolerance, in units of the modelled deviations

None == "None"

Min(a, b) == IF a < b THEN a ELSE b
Max(a, b) == IF a > b THEN a ELSE b

----------------------------------------------------------------------------
(* Names are strings of characters; str.lower() maps every upper case      *)
(* letter to its lower case letter and leaves the rest.                    *)
UpperCase == <<"A","B","C","D","E","F","G","H","I","J","K","L","M",
               "N","O","P","Q","R","S","T","U","V","W","X","Y","Z">>
LowerCase == <<"a","b","c","d","e","f","g","h","i","j","k","l","m",
               "n","o","p","q","r","s","t","u","v","w","x","y","z">>

LowerChar(c) ==
    IF \E k \in DOMAIN UpperCase : UpperCase[k] = c
    THEN LowerCase[CHOOSE k \in DOMAIN UpperCase : UpperCase[k] = c]
    ELSE c

lower(s) == [k \in DOMAIN s |-> LowerChar(s[k])]

s_davidson == <<"d","a","v","i","d","s","o","n">>
s_lanczos  == <<"l","a","n","c","z","o","s">>
s_exacteig == <<"e","x","a","c","t","e","i","g">>
s_ExactEig == <<"E","x","a","c","t","E","i","g">>
s_jacobi   == <<"j","a","c","o","b","i">>
s_eye      == <<"e","y","e">>
s_randn    == <<"r","a","n","d","n">>
s_rand     == <<"r","a","n","d">>
s_Rand     == <<"R","a","n","d">>
s_random   == <<"r","a","n","d","o","m">>
s_ones     == <<"o","n","e","s">>

Methods == {s_davidson, s_lanczos, s_exacteig, s_ExactEig, s_jacobi}
VInits  == {s_eye, s_randn, s_Rand, s_random, s_ones}
Dtypes  == {"float32", "float64"}

----------------------------------------------------------------------------
(* The process-wide generator: manual_seed puts it in the state the seed   *)
(* names, a draw of k numbers advances it by k.                            *)
ManualSeedSkipped(r, seed) == r

manual_seed(r, seed) == seed % RngMod

DrawKeepsState(r, k) == r

Advance(r, k) == (r + k) % RngMod

(* a freshly drawn tensor is determined by the generator state and its size *)
Sample(r, k) == <<r, k>>

----------------------------------------------------------------------------
(* The operator capability.  Its numerical behaviour is summarised by the  *)
(* deviation the quantity tested by a stop test shows for batch element b  *)
(* in iteration i (it shrinks by one unit per iteration, later batch       *)
(* elements converge later), and by the iteration from which the predicted *)
(* eigenvalue agrees with the actual one.                                  *)
Slow == MaxNiter + MaxBatch + 1

Dev(op, b, i) == Max(0, op.dev0 + (b - 1) - i)

(* dev = (...).abs().max(); dev < min_eps : one Boolean for the whole batch *)
MaxDevBelow(op, nbatch, i) ==
    LET dev == CHOOSE d \in {Dev(op, b, i) : b \in 1..nbatch} :
                   \A b \in 1..nbatch : Dev(op, b, i) <= d
    IN  dev < min_eps

(* diff_eigvalT.abs().max() < rms_eig*1e-2 : rms_eig has one entry per     *)
(* batch element, so the comparison has one Boolean per batch element.     *)
SwitchCond(op, nbatch, i) == [b \in 1..nbatch |-> i >= op.switchAt + (b - 1)]

(* width of an elementwise result of operands of widths a and b; 0 when    *)
(* the shapes do not broadcast                                             *)
Broadcast(a, b) ==
    IF a = b THEN a ELSE IF a = 1 THEN b ELSE IF b = 1 THEN a ELSE 0

(* number of columns of Q of the reduced QR of an na x m matrix *)
QRCols(na, m) == Min(na, m)

Tensor(d, b) == [dtype |-> d, nbatch |-> b, grad |-> None]

----------------------------------------------------------------------------
LocInit ==
    [na |-> 0, nbatch |-> 0, dtype |-> None,
     V |-> 0, v0 |-> <<0, 0>>, AV |-> 0, i |-> 0,
     bodies |-> 0,             \* number of loop bodies entered
     prev_eigvals |-> 0,       \* 0: None, else the width of the record
     eigvalT |-> 0,            \* 0: unbound, else the number of Ritz values
     eig_iter |-> 0,           \* iteration of the last diagonalization
     nguess |-> 0, probe |-> <<0, 0>>,
     shift_is_eigvalT |-> FALSE,
     switch_cond |-> <<>>,     \* value of the last switch condition
     stopped |-> FALSE]        \* the loop was left by break

CallsInit == [apply |-> 0, precond |-> 0, shape |-> 0, parameters |-> 0,
              manual_seed |-> 0, randn |-> 0]

NoOutcome == [status |-> "running", err |-> None, evals |-> 0,
              evecs |-> <<0, 0>>, v0 |-> <<0, 0>>, probe |-> <<0, 0>>,
              iters |-> 0]

CtxInit == [saved |-> FALSE, evals |-> 0, evecs |-> <<0, 0>>,
            params |-> <<>>, A |-> None]

CgIdle == [stage |-> "idle"]

VecIdle == [stage |-> "idle"]

LatchIdle == [stage |-> "idle"]

AtmIdle == [stage |-> "idle"]

EnvIdle == [stage |-> "idle"]

BasisIdle == [stage |-> "idle"]

BwdInit ==
    [stage |-> "idle", loss |-> FALSE, solves |-> 0, grads |-> <<>>,
     tracked |-> 0,      \* operator applications under torch.enable_grad()
     applied_to |-> None,
     pcg |-> <<>>,       \* the arguments of the conjgrad calls
     passes |-> 0,       \* calls of torch.autograd.grad
     seed |-> None]      \* grad_outputs of the reverse-mode pass

Init ==
    /\ \E na \in 1..MaxN, sq \in BOOLEAN, own \in BOOLEAN,
          d0 \in {0, 1, Slow}, sw \in {0, Slow} :
          A = [shape |-> <<na, IF sq THEN na ELSE na + 1>>,
               parameters |-> IF own THEN <<Tensor("float16", 1)>> ELSE <<>>,
               dev0 |-> d0, switchAt |-> sw]
    /\ neig \in 1..A.shape[1]
    /\ params \in {<<>>} \cup {<<Tensor(d, b)>> : d \in Dtypes, b \in 1..MaxBatch}
    /\ \E m \in Methods, it \in 1..MaxNiter, v \in VInits, g \in 1..MaxNguess :
          fwd_options = [method |-> m, max_niter |-> it, v_init |-> v, nguess |-> g]
    /\ lower(fwd_options.method) # s_davidson =>
          (fwd_options.nguess = 1 /\ A.switchAt = 0)
    /\ rng = 0
    /\ pc = "forward"
    /\ run = 1
    /\ strategy = <<>>
    /\ loc = LocInit
    /\ calls = CallsInit
    /\ outcome = NoOutcome
    /\ first = NoOutcome
    /\ rng_before = 0
    /\ ctx = CtxInit
    /\ bwd = BwdInit
    /\ cg = CgIdle
    /\ vec = VecIdle
    /\ latch = LatchIdle
    /\ atm = AtmIdle
    /\ env = EnvIdle
    /\ basis = BasisIdle

----------------------------------------------------------------------------
(* raise: the call ends with the exception e *)
Raise(e) ==
    /\ pc' = "done"
    /\ outcome' = [NoOutcome EXCEPT !.status = "raise", !.err = e]

(* lsymeig_torchfcn.forward, lines 58-63: the strategy returned, the       *)
(* result and the inputs are saved for backward and returned               *)
Return(nvals, rows, cols, l) ==
    /\ pc' = "done"
    /\ outcome' = [status |-> "ok", err |-> None, evals |-> nvals,
                   evecs |-> <<rows, cols>>, v0 |-> l.v0, probe |-> l.probe,
                   iters |-> l.i]
    /\ ctx' = [saved |-> TRUE, evals |-> nvals, evecs |-> <<rows, cols>>,
               params |-> params, A |-> A]

(* method = config["method"].lower(); the function the if-chain calls, or  *)
(* <<>> when it reaches the else branch                                    *)
DispatchWithDefault(method) ==
    IF lower(method) \in {s_davidson, s_lanczos, s_exacteig}
    THEN lower(method) ELSE s_davidson

Dispatch(method) ==
    IF lower(method) \in {s_davidson, s_lanczos, s_exacteig}
    THEN lower(method) ELSE <<>>

Forward ==
    /\ pc = "forward"
    /\ rng_before' = rng
    /\ LET callee == Dispatch(fwd_options.method) IN
       IF callee = <<>>
       THEN /\ Raise("RuntimeError")
            /\ UNCHANGED strategy
       ELSE /\ strategy' = callee
            /\ pc' = "check_shape"
            /\ UNCHANGED outcome
    /\ UNCHANGED <<inputs, rng, run, loc, calls, first, ctx, bwd, sub>>

(* _check_and_get_shape *)
ShapeAccepted(shape) == TRUE

ShapeIsSquare(shape) == shape[1] = shape[2]

check_and_get_shape ==
    /\ pc = "check_shape"
    /\ calls' = [calls EXCEPT !.shape = @ + 1]
    /\ IF ShapeIsSquare(A.shape)
       THEN /\ loc' = [loc EXCEPT !.na = A.shape[1]]
            /\ pc' = "nbatch"
            /\ UNCHANGED outcome
       ELSE /\ Raise("TypeError")
            /\ UNCHANGED loc
    /\ UNCHANGED <<inputs, rng, run, strategy, first, rng_before, ctx, bwd, sub>>

(* nbatch = params[0].shape[0] *)
get_nbatch ==
    /\ pc = "nbatch"
    /\ IF Len(params) = 0
       THEN /\ Raise("IndexError")
            /\ UNCHANGED loc
       ELSE /\ loc' = [loc EXCEPT !.nbatch = params[1].nbatch]
            /\ pc' = "dtype"
            /\ UNCHANGED outcome
    /\ UNCHANGED <<inputs, rng, run, strategy, calls, first, rng_before, ctx, bwd, sub>>

(* _get_dtype_device: the tensor whose dtype and device are taken *)
DtypeSource(ps, op) ==
    IF Len(op.parameters) = 0 THEN ps[1] ELSE op.parameters[1]

get_dtype_device ==
    /\ pc = "dtype"
    /\ calls' = [calls EXCEPT !.parameters = @ + 1]
    /\ loc' = [loc EXCEPT !.dtype = DtypeSource(params, A).dtype]
    /\ pc' = IF strategy = s_exacteig THEN "exacteig" ELSE "init_v"
    /\ UNCHANGED <<inputs, rng, run, strategy, outcome, first, rng_before, ctx, bwd, sub>>

----------------------------------------------------------------------------
(* _set_initial_v: the branch the if-chain takes for a v_init name         *)
InitBranchPermissive(vinit_type) ==
    IF vinit_type = s_eye THEN "eye"
    ELSE IF vinit_type = s_rand \/ vinit_type = s_random THEN "rand"
    ELSE "randn"

InitBranch(vinit_type) ==
    IF vinit_type = s_eye THEN "eye"
    ELSE IF vinit_type = s_randn THEN "randn"
    ELSE IF vinit_type = s_random \/ vinit_type = s_rand THEN "rand"
    ELSE "raise"

(* the strategies call _set_initial_v(config["v_init"].lower(), nbatch, na, *)
(* nguess) with nguess = 1 (lanczos) or config["nguess"] (davidson)         *)
set_initial_v ==
    /\ pc = "init_v"
    /\ LET nguess == IF strategy = s_lanczos THEN 1 ELSE fwd_options.nguess
           branch == InitBranch(lower(fwd_options.v_init))
           seeded == manual_seed(rng, Seed)
           size   == loc.nbatch * loc.na * nguess
       IN  /\ calls' = [calls EXCEPT !.manual_seed = @ + 1,
                           !.randn = IF branch \in {"randn", "rand"} THEN @ + 1 ELSE @]
           /\ CASE branch = "eye" ->
                    \* torch.eye(na, nguess), not orthogonalized again
                    /\ rng' = seeded
                    /\ loc' = [loc EXCEPT !.V = nguess, !.v0 = <<0, 0>>,
                                          !.nguess = nguess]
                    /\ pc' = IF strategy = s_lanczos THEN "lanczos" ELSE "davidson_prep"
                    /\ UNCHANGED outcome
                [] branch \in {"randn", "rand"} ->
                    \* torch.randn / torch.rand, then V, R = torch.qr(V)
                    /\ rng' = Advance(seeded, size)
                    /\ loc' = [loc EXCEPT !.V = QRCols(loc.na, nguess),
                                          !.v0 = Sample(seeded, size),
                                          !.nguess = nguess]
                    /\ pc' = IF strategy = s_lanczos THEN "lanczos" ELSE "davidson_prep"
                    /\ UNCHANGED outcome
                [] OTHER ->
                    /\ rng' = seeded
                    /\ Raise("ValueError")
                    /\ UNCHANGED loc
    /\ UNCHANGED <<inputs, run, strategy, first, rng_before, ctx, bwd, sub>>

----------------------------------------------------------------------------
(* for i in range(max_niter): the loop enters its body again unless it    *)
(* was left by break or i has run through range(max_niter)                 *)
LoopRunsUnbounded(l, max_niter) == ~l.stopped

LoopRuns(l, max_niter) == ~l.stopped /\ l.i < max_niter

(* the stop test of lanczos, lines 162-168 *)
LanczosStopWithoutRecord(l, op, i) == MaxDevBelow(op, l.nbatch, i)

LanczosStop(l, op, i) ==
    l.prev_eigvals # 0 /\ MaxDevBelow(op, l.nbatch, i)

(* lanczos, lines 144-169: one iteration of the loop *)
lanczos_iter ==
    /\ pc = "lanczos"
    /\ LoopRuns(loc, fwd_options.max_niter)
    /\ LET i == loc.i IN
       IF i >= loc.V
       THEN \* v = V[:,:,i] : index out of range
            /\ Raise("IndexError")
            /\ loc' = [loc EXCEPT !.bodies = @ + 1]
            /\ UNCHANGED calls
       ELSE LET Vc == QRCols(loc.na, loc.V + 1)   \* cat, then qr
                l1 == [loc EXCEPT !.V = Vc, !.AV = Vc, !.bodies = @ + 1]
            IN  /\ calls' = [calls EXCEPT !.apply = @ + 2]
                /\ UNCHANGED <<pc, outcome>>
                /\ IF i + 1 < neig
                   THEN loc' = [l1 EXCEPT !.i = i + 1]        \* continue
                   ELSE LET l2 == [l1 EXCEPT !.eigvalT = Vc, !.eig_iter = i] IN
                        IF LanczosStop(loc, A, i)
                        THEN loc' = [l2 EXCEPT !.stopped = TRUE]  \* break
                        ELSE loc' = [l2 EXCEPT !.prev_eigvals = Min(neig, Vc),
                                               !.i = i + 1]
    /\ UNCHANGED <<inputs, rng, run, strategy, first, rng_before, ctx, bwd, sub>>

(* lanczos, lines 171-173, and the tail of forward *)
lanczos_return ==
    /\ pc = "lanczos"
    /\ ~LoopRuns(loc, fwd_options.max_niter)
    /\ IF loc.eigvalT = 0
       THEN \* eigvalT was never assigned
            /\ Raise("UnboundLocalError")
            /\ UNCHANGED ctx
       ELSE Return(Min(neig, loc.eigvalT), loc.na, Min(neig, loc.eigvalT), loc)
    /\ UNCHANGED <<inputs, rng, run, strategy, loc, calls, first, rng_before, bwd, sub>>

----------------------------------------------------------------------------
(* davidson, lines 225-243: the image of the initial guess and the         *)
(* randomized estimate of the lowest eigenvalue                            *)
davidson_prep ==
    /\ pc = "davidson_prep"
    /\ LET size == loc.nbatch * loc.na * ntest IN
       /\ loc' = [loc EXCEPT !.AV = loc.V, !.probe = Sample(rng, size)]
       /\ rng' = Advance(rng, size)
    /\ calls' = [calls EXCEPT !.apply = @ + 2, !.randn = @ + 1]
    /\ pc' = "davidson"
    /\ UNCHANGED <<inputs, run, strategy, outcome, first, rng_before, ctx, bwd, sub>>

(* the stop test of davidson, lines 265-273 *)
DavidsonStop(l, op, i) ==
    l.prev_eigvals # 0 /\ MaxDevBelow(op, l.nbatch, i)

(* width of the preconditioned residual t: y / dd of the preconditioner,   *)
(* y of width w and dd of the width of the biases                          *)
PrecondCols(w, zw) == Broadcast(w, zw)

(* davidson, lines 245-300: one iteration of the loop *)
davidson_iter ==
    /\ pc = "davidson"
    /\ LoopRuns(loc, fwd_options.max_niter)
    /\ LET i  == loc.i
           w  == Min(neig, loc.V)              \* eigvalT[:,:neig]
           zw == IF loc.shift_is_eigvalT THEN w ELSE neig
           tw == PrecondCols(w, zw)
           cond == SwitchCond(A, loc.nbatch, i)
           l1 == [loc EXCEPT !.eigvalT = w, !.eig_iter = i, !.bodies = @ + 1]
       IN
       IF loc.V # loc.AV
       THEN \* T = bmm(VT, AV) is not square: symeig rejects it
            /\ Raise("RuntimeError")
            /\ loc' = [loc EXCEPT !.bodies = @ + 1]
            /\ UNCHANGED calls
       ELSE IF loc.prev_eigvals # 0 /\ Broadcast(w, loc.prev_eigvals) = 0
       THEN \* deigval = eigvalT - prev_eigvalT
            /\ Raise("RuntimeError")
            /\ loc' = l1
            /\ UNCHANGED calls
       ELSE IF DavidsonStop(loc, A, i)
       THEN \* break
            /\ loc' = [l1 EXCEPT !.stopped = TRUE]
            /\ UNCHANGED <<pc, outcome, calls>>
       ELSE IF tw = 0
       THEN \* the residual and the biases do not broadcast
            /\ Raise("RuntimeError")
            /\ loc' = [l1 EXCEPT !.prev_eigvals = w]
            /\ calls' = [calls EXCEPT !.precond = @ + 1]
       ELSE IF ~loc.shift_is_eigvalT /\ Len(cond) > 1
       THEN \* if <tensor with more than one element>
            /\ Raise("RuntimeError")
            /\ loc' = [l1 EXCEPT !.prev_eigvals = w, !.switch_cond = cond]
            /\ calls' = [calls EXCEPT !.precond = @ + 1, !.apply = @ + 1]
       ELSE LET Vc == QRCols(loc.na, loc.V + tw)
                AVnew == Min(neig, Vc)        \* A(V[:,:,-neig:])
            IN  /\ loc' = [l1 EXCEPT
                      !.prev_eigvals = w,
                      !.switch_cond = IF loc.shift_is_eigvalT THEN @ ELSE cond,
                      !.shift_is_eigvalT = @ \/ cond[1],
                      !.V = Vc,
                      !.nguess = @ + neig,
                      !.AV = @ + AVnew,
                      !.i = i + 1]
                /\ calls' = [calls EXCEPT
                      !.precond = @ + 1,
                      !.apply = @ + (IF loc.shift_is_eigvalT THEN 1 ELSE 2)]
                /\ UNCHANGED <<pc, outcome>>
    /\ UNCHANGED <<inputs, rng, run, strategy, first, rng_before, ctx, bwd, sub>>

(* davidson, lines 302-304, and the tail of forward *)
davidson_return ==
    /\ pc = "davidson"
    /\ ~LoopRuns(loc, fwd_options.max_niter)
    /\ Return(loc.eigvalT, loc.na, loc.eigvalT, loc)
    /\ UNCHANGED <<inputs, rng, run, strategy, loc, calls, first, rng_before, bwd, sub>>

----------------------------------------------------------------------------
(* evals[:,:neig], evecs[:,:,:neig]: the number of columns kept *)
Untruncated(cols, k) == cols

Truncate(cols, k) == Min(k, cols)

(* exacteig, lines 332-338, and the tail of forward *)
exacteig ==
    /\ pc = "exacteig"
    /\ calls' = [calls EXCEPT !.apply = @ + 1]
    /\ loc' = [loc EXCEPT !.V = loc.na, !.eigvalT = loc.na]
    /\ Return(Truncate(loc.na, neig), loc.na, Truncate(loc.na, neig), loc)
    /\ UNCHANGED <<inputs, rng, run, strategy, first, rng_before, bwd, sub>>

----------------------------------------------------------------------------
(* lsymeig_torchfcn.backward                                               *)

(* lines 71-76: loss = ctx.A(evecs, *ctx.params) under enable_grad *)
backward_loss ==
    /\ pc = "done"
    /\ outcome.status = "ok"
    /\ ctx.saved
    /\ bwd.stage = "idle"
    /\ bwd' = [bwd EXCEPT !.stage = "loss", !.loss = TRUE,
                          !.tracked = @ + 1,
                          !.applied_to = "ctx.evecs.detach()"]
    /\ calls' = [calls EXCEPT !.apply = @ + 1]
    /\ pc' = "backward"
    /\ UNCHANGED <<inputs, rng, run, strategy, loc, outcome, first, rng_before, ctx, sub>>

(* lines 79-88: the contributions of the eigenvalues and, through one      *)
(* conjgrad solve with the operator and its preconditioner, of the         *)
(* eigenvectors.  conjgrad is imported from ddft.maths.cg; what is         *)
(* modelled here is its call: it is handed the operator and the            *)
(* preconditioner as closures and calls them.                              *)
backward_solve ==
    /\ pc = "backward"
    /\ bwd.stage = "loss"
    /\ bwd' = [bwd EXCEPT !.stage = "solved", !.solves = @ + 1,
                  !.pcg = Append(@, [A |-> "ctx.A(X) - X * evals", B |-> "-B",
                                     biases |-> "evals", posdef |-> FALSE])]
    /\ calls' = [calls EXCEPT !.apply = @ + 1, !.precond = @ + 1]
    /\ UNCHANGED <<inputs, rng, pc, run, strategy, loc, outcome, first, rng_before, ctx, sub>>

(* torch.autograd.grad(outputs, inputs, grad_outputs): returns one         *)
(* gradient per input and leaves the inputs as they are                    *)
GradAccumulatedInPlace(ps) == [k \in DOMAIN ps |-> [ps[k] EXCEPT !.grad = "gaccum"]]

InputsAfterGrad(ps) == ps

(* line 99: what backward returns for grad_params *)
ReturnedForParamsOnly(grad_params) == grad_params

Returned(grad_params) == <<None, None, None, None>> \o grad_params

(* lines 91-99 *)
backward_grad ==
    /\ pc = "backward"
    /\ bwd.stage = "solved"
    /\ params' = InputsAfterGrad(params)
    /\ bwd' = [bwd EXCEPT !.stage = "returned",
                  !.passes = @ + 1,
                  !.seed = "gevals + gevecs",
                  !.grads = Returned([k \in DOMAIN ctx.params |-> "grad"])]
    /\ pc' = "backward_done"
    /\ UNCHANGED <<A, neig, fwd_options, rng, run, strategy, loc, calls,
                   outcome, first, rng_before, ctx, sub>>

----------------------------------------------------------------------------
(* The caller repeats the call with the same operator, parameters and      *)
(* options; the process-wide generator may have been used in between.      *)
PriorRng == {1}

Rerun ==
    /\ pc = "done"
    /\ run = 1
    /\ run' = 2
    /\ first' = outcome
    /\ rng' \in {rng} \cup PriorRng
    /\ pc' = "forward"
    /\ strategy' = <<>>
    /\ loc' = LocInit
    /\ calls' = CallsInit
    /\ outcome' = NoOutcome
    /\ ctx' = CtxInit
    /\ UNCHANGED <<inputs, rng_before, bwd, sub>>

Next ==
    \/ Forward
    \/ check_and_get_shape
    \/ get_nbatch
    \/ get_dtype_device
    \/ set_initial_v
    \/ lanczos_iter
    \/ lanczos_return
    \/ davidson_prep
    \/ davidson_iter
    \/ davidson_return
    \/ exacteig
    \/ backward_loss
    \/ backward_solve
    \/ backward_grad
    \/ Rerun

Spec == Init /\ [][Next]_vars

----------------------------------------------------------------------------
(* The eigendecomposition call at rest: the state in which the parts of    *)
(* the call below are followed on their own.                               *)
Parked ==
    /\ A = [shape |-> <<1, 1>>, parameters |-> <<>>, dev0 |-> 1, switchAt |-> 0]
    /\ neig = 1
    /\ params = <<Tensor("float64", 1)>>
    /\ fwd_options = [method |-> s_exacteig, max_niter |-> 1,
                      v_init |-> s_eye, nguess |-> 1]
    /\ rng = 0
    /\ pc = "backward"
    /\ run = 1
    /\ strategy = s_exacteig
    /\ loc = LocInit
    /\ calls = CallsInit
    /\ outcome = NoOutcome
    /\ first = NoOutcome
    /\ rng_before = 0
    /\ ctx = CtxInit
    /\ bwd = BwdInit

----------------------------------------------------------------------------
(* conjgrad (ddft.maths.cg), the preconditioned conjugate gradient solve   *)
(* backward calls at line 86.  The residual norm is counted in units of    *)
(* the tolerance; a step reduces it by one unit unless the system is       *)
(* singular along the remaining residual (it cannot go below floor), where *)
(* the step's denominator is degenerate.                                   *)
MaxCgIter == 3     \* largest max_niter of conjgrad
MaxResid == 3      \* largest initial residual norm

InitCG ==
    /\ Parked
    /\ vec = VecIdle
    /\ latch = LatchIdle
    /\ atm = AtmIdle /\ env = EnvIdle /\ basis = BasisIdle
    /\ \E it \in 1..MaxCgIter, r0 \in 0..MaxResid, fl \in 0..MaxResid,
          pd \in BOOLEAN :
          /\ fl <= r0
          /\ pd => fl = 0
          /\ cg = [stage |-> "called", max_niter |-> it, posdef |-> pd,
                   resid |-> r0, floor |-> fl, k |-> 0,
                   skipped |-> 0, divided_by_zero |-> FALSE]

(* the solution estimate starts at zero: the residual is the right-hand    *)
(* side; the preconditioner gives the first search direction               *)
cg_init ==
    /\ cg.stage = "called"
    /\ cg' = [cg EXCEPT !.stage = "loop"]
    /\ UNCHANGED <<main, vec, latch, dqc>>

(* the denominator of the step is degenerate *)
Degenerate(c) == c.resid > 0 /\ c.resid <= c.floor

(* one update of the estimate: a degenerate step is skipped *)
CgStepUnguarded(c) ==
    IF Degenerate(c)
    THEN [c EXCEPT !.k = @ + 1, !.divided_by_zero = TRUE]
    ELSE [c EXCEPT !.k = @ + 1, !.resid = @ - 1]

CgStep(c) ==
    IF Degenerate(c)
    THEN [c EXCEPT !.k = @ + 1, !.skipped = @ + 1]
    ELSE [c EXCEPT !.k = @ + 1, !.resid = @ - 1]

(* the stop condition: residual norm below min_eps, or max_niter reached *)
CgStops(c) == c.resid < min_eps \/ c.k >= c.max_niter

cg_iter ==
    /\ cg.stage = "loop"
    /\ ~CgStops(cg)
    /\ cg' = CgStep(cg)
    /\ UNCHANGED <<main, vec, latch, dqc>>

(* reaching max_niter is not an error: the current estimate is returned *)
cg_return ==
    /\ cg.stage = "loop"
    /\ CgStops(cg)
    /\ cg' = [cg EXCEPT !.stage = "returned"]
    /\ UNCHANGED <<main, vec, latch, dqc>>

NextCG ==
    \/ cg_init
    \/ cg_iter
    \/ cg_return

SpecCG == InitCG /\ [][NextCG]_vars

----------------------------------------------------------------------------
(* backward, lines 83-88, followed by value.  A matrix is the sequence of  *)
(* its columns, a column a sequence of integers; the eigenvectors are      *)
(* distinct columns of the identity, which are orthonormal.                *)
VecDim == 2        \* largest dimension of the vectors
MaxEntry == 1      \* largest entry of a gradient

Dot(x, y) == LET S[k \in 0..Len(x)] ==
                     IF k = 0 THEN 0 ELSE S[k - 1] + x[k] * y[k]
             IN  S[Len(x)]

Unit(n, k) == [r \in 1..n |-> IF r = k THEN 1 ELSE 0]

(* x - (x * v).sum(dim=1, keepdim=True) * v, one column *)
ColumnKept(x, v) == x

RemoveComponent(x, v) == [r \in DOMAIN x |-> x[r] - Dot(x, v) * v[r]]

(* the same for every column against the eigenvector of its own index *)
Orthogonalize(X, evecs) ==
    [j \in DOMAIN X |-> RemoveComponent(X[j], evecs[j])]

Injections(m, n) ==
    {f \in [1..m -> 1..n] : \A a, b \in 1..m : a # b => f[a] # f[b]}

InitProj ==
    /\ Parked
    /\ cg = CgIdle
    /\ latch = LatchIdle
    /\ atm = AtmIdle /\ env = EnvIdle /\ basis = BasisIdle
    /\ \E n \in 1..VecDim :
       \E m \in 1..n :
       \E f \in Injections(m, n), G \in [1..m -> [1..n -> 0..MaxEntry]] :
          vec = [stage |-> "entered", n |-> n,
                 evecs |-> [j \in 1..m |-> Unit(n, f[j])],
                 grad_evecs |-> G,
                 B |-> <<>>, gevecs |-> <<>>, solved |-> <<>>]

(* line 83 *)
bk_project ==
    /\ vec.stage = "entered"
    /\ vec' = [vec EXCEPT !.stage = "projected",
                          !.B = Orthogonalize(vec.grad_evecs, vec.evecs)]
    /\ UNCHANGED <<main, cg, latch, dqc>>

(* line 86: conjgrad returns an estimate of the solution of the shifted    *)
(* system for -B, with some component c along all directions left in it    *)
bk_solve ==
    /\ vec.stage = "projected"
    /\ \E c \in 0..MaxEntry :
          vec' = [vec EXCEPT !.stage = "solved",
                     !.solved = [j \in DOMAIN vec.B |->
                                   [r \in 1..vec.n |-> c - vec.B[j][r]]]]
    /\ UNCHANGED <<main, cg, latch, dqc>>

(* line 88 *)
bk_reorthogonalize ==
    /\ vec.stage = "solved"
    /\ vec' = [vec EXCEPT !.stage = "done",
                          !.gevecs = Orthogonalize(vec.solved, vec.evecs)]
    /\ UNCHANGED <<main, cg, latch, dqc>>

NextProj ==
    \/ bk_project
    \/ bk_solve
    \/ bk_reorthogonalize

SpecProj == InitProj /\ [][NextProj]_vars

----------------------------------------------------------------------------
(* davidson, lines 230-243 and 276-293, followed by value: the bias handed *)
(* to the preconditioner.  min_eig_est and eigvalT are (nbatch, neig)      *)
(* matrices, a row per batch element; the Ritz values of a row are sorted  *)
(* from the lowest, and row b lies b-1 above row 1.                        *)
Sorted(n) ==
    {x \in [1..n -> 0..MaxEntry] : \A k \in 1..(n - 1) : x[k] <= x[k + 1]}

Rows(nbatch, x) == [b \in 1..nbatch |-> [k \in DOMAIN x |-> x[k] + (b - 1)]]

(* lines 278-281 *)
BiasAlwaysEstimate(shift_is_eigvalT, min_eig_est, eigvalT) == min_eig_est

Bias(shift_is_eigvalT, min_eig_est, eigvalT) ==
    IF ~shift_is_eigvalT THEN min_eig_est ELSE eigvalT

(* lines 291-293: min_eig_est[change_idx] = next_value[change_idx] *)
Reestimate(min_eig_est, eigvalT, diff_eigvalT) ==
    [b \in DOMAIN min_eig_est |->
        [k \in DOMAIN min_eig_est[b] |->
            IF min_eig_est[b][k] > eigvalT[b][k]
            THEN eigvalT[b][k] - 2 * diff_eigvalT
            ELSE min_eig_est[b][k]]]

InitShift ==
    /\ Parked
    /\ cg = CgIdle
    /\ vec = VecIdle
    /\ atm = AtmIdle /\ env = EnvIdle /\ basis = BasisIdle
    /\ \E nb \in 1..MaxBatch, ne \in 1..VecDim, it \in 1..MaxNiter,
          sw \in 0..MaxNiter, e0 \in 0..MaxEntry :
          latch = [stage |-> "loop", nbatch |-> nb, neig |-> ne,
                   max_niter |-> it, switchAt |-> sw, i |-> 0,
                   shift_is_eigvalT |-> FALSE,
                   \* min_eig_est.unsqueeze(-1).repeat(1,neig)
                   min_eig_est |-> Rows(nb, [k \in 1..ne |-> e0]),
                   eigvalT |-> <<>>, z |-> <<>>,
                   small |-> <<>>,     \* value of the last comparison
                   first_small |-> -1] \* iteration of the first true one

(* one iteration of the loop, lines 276-293 *)
shift_iter ==
    /\ latch.stage = "loop"
    /\ latch.i < latch.max_niter
    /\ \E ritz \in Sorted(latch.neig), d \in {-1, 1} :
         LET eigvalT == Rows(latch.nbatch, ritz)
             z == Bias(latch.shift_is_eigvalT, latch.min_eig_est, eigvalT)
             cond == SwitchCond(latch, latch.nbatch, latch.i)
             l1 == [latch EXCEPT !.eigvalT = eigvalT, !.z = z]
         IN  IF latch.shift_is_eigvalT
             THEN latch' = [l1 EXCEPT !.i = @ + 1]
             ELSE IF Len(cond) > 1
             THEN \* if <tensor with more than one element>
                  latch' = [l1 EXCEPT !.stage = "raised", !.small = cond]
             ELSE IF cond[1]
             THEN latch' = [l1 EXCEPT !.shift_is_eigvalT = TRUE,
                                      !.small = cond,
                                      !.first_small = latch.i,
                                      !.i = @ + 1]
             ELSE latch' = [l1 EXCEPT
                              !.min_eig_est = Reestimate(@, eigvalT, d),
                              !.small = cond,
                              !.i = @ + 1]
    /\ UNCHANGED <<main, cg, vec, dqc>>

(* the loop has run through range(max_niter) *)
shift_end ==
    /\ latch.stage = "loop"
    /\ latch.i >= latch.max_niter
    /\ latch' = [latch EXCEPT !.stage = "ended"]
    /\ UNCHANGED <<main, cg, vec, dqc>>

NextShift ==
    \/ shift_iter
    \/ shift_end

SpecShift == InitShift /\ [][NextShift]_vars

----------------------------------------------------------------------------
(* dqc/hamilton/libcint_wrapper.py: LibcintWrapper._int1e with nuc=True    *)
(* and the context manager _all_atomz_are_zero_except.  The charge column  *)
(* self._atm[:, 0] is a sequence of integers, one per atom.                *)
MaxAtoms == 2      \* largest number of atoms
MaxZ == 2          \* largest atomic charge
MaxShells == 2     \* largest number of shells of the wrapper

(* the pairs (i1, i2) with i1 <= i2 of _int1e's two loops *)
ShellPairs(n) == (n * (n + 1)) \div 2

InitAtm ==
    /\ Parked
    /\ cg = CgIdle
    /\ vec = VecIdle
    /\ latch = LatchIdle
    /\ env = EnvIdle
    /\ basis = BasisIdle
    /\ \E na \in 1..MaxAtoms, ns \in 1..MaxShells :
       \E z \in [1..na -> 1..MaxZ] :
          atm = [stage |-> "loop", natoms |-> na, npairs |-> ShellPairs(ns),
                 constructed |-> z,     \* the column as __init__ left it
                 col |-> z,             \* self._atm[:, 0]
                 backup |-> <<>>,       \* _atm_backup
                 before |-> <<>>,       \* the column when the block was entered
                 pair |-> 1, ia |-> 1, entered |-> 0]

(* lines 263-264 *)
ZeroExcept(col, backup, ia) ==
    [a \in DOMAIN col |-> IF a = ia THEN backup[a] ELSE 0]

(* line 267: self._atm[:, 0] = _atm_backup[:] *)
LeftAsIs(col, backup) == col

Restore(col, backup) == backup

(* `with self._all_atomz_are_zero_except(ia):` up to the yield, lines      *)
(* 230 and 261-265                                                         *)
atomz_enter ==
    /\ atm.stage = "loop"
    /\ atm.pair <= atm.npairs
    /\ atm' = [atm EXCEPT !.stage = "inside",
                          !.backup = atm.col,             \* .copy()
                          !.before = atm.col,
                          !.col = ZeroExcept(atm.col, atm.col, atm.ia),
                          !.entered = @ + 1]
    /\ UNCHANGED <<main, cg, vec, latch, env, basis>>

(* the body of the block (the integral, lines 231-236) returns or raises;  *)
(* the finally clause, lines 266-267, runs in both cases; then the loops   *)
(* of _int1e go on, or the exception leaves _int1e                         *)
atomz_exit ==
    /\ atm.stage = "inside"
    /\ \E raised \in BOOLEAN :
         LET restored == [atm EXCEPT !.col = Restore(atm.col, atm.backup)] IN
         IF raised
         THEN atm' = [restored EXCEPT !.stage = "raised"]
         ELSE IF atm.ia < atm.natoms
         THEN atm' = [restored EXCEPT !.stage = "loop", !.ia = @ + 1]
         ELSE atm' = [restored EXCEPT !.stage = "loop", !.ia = 1, !.pair = @ + 1]
    /\ UNCHANGED <<main, cg, vec, latch, env, basis>>

(* line 254 *)
int1e_return ==
    /\ atm.stage = "loop"
    /\ atm.pair > atm.npairs
    /\ atm' = [atm EXCEPT !.stage = "returned"]
    /\ UNCHANGED <<main, cg, vec, latch, env, basis>>

NextAtm ==
    \/ atomz_enter
    \/ atomz_exit
    \/ int1e_return

SpecAtm == InitAtm /\ [][NextAtm]_vars

----------------------------------------------------------------------------
(* LibcintWrapper.__init__, lines 55-76, and _add_atom_and_basis.  An      *)
(* entry of the environment list is modelled by the datum it holds: its    *)
(* kind, the atom and the shell it belongs to and its index there.         *)
NDIM == 3
ptr_env0 == 20
MaxGauss == 2      \* largest number of primitives of a shell

Datum(kind, atom, shell, k) ==
    [kind |-> kind, atom |-> atom, shell |-> shell, k |-> k]

(* [0.0] * self._ptr_env *)
Padding == [k \in 1..ptr_env0 |-> Datum("pad", 0, 0, k - 1)]

(* the items list.extend takes from a 1-D tensor of n elements *)
Items(kind, atom, shell, n) == [k \in 1..n |-> Datum(kind, atom, shell, k - 1)]

Last(q) == q[Len(q)]

(* lines 119-123: the atom *)
AddAtom(e, iatom, atombasis) ==
    [e EXCEPT
       !.atm_list = Append(@, [iatom |-> iatom, ptr_coord |-> e.ptr_env,
                               ptr_zeta |-> e.ptr_env + NDIM]),
       !.env_list = (@ \o Items("pos", iatom, 0, atombasis.pos))
                       \o <<Datum("zeta", iatom, 0, 0)>>,
       !.ptr_env = @ + NDIM + 1]

(* line 139: self._ptr_env += 2 * ngauss *)
PtrAfterAlphas(ptr, ngauss) == ptr + ngauss

PtrAfterBasis(ptr, ngauss) == ptr + 2 * ngauss

(* lines 126-145: one basis of the atom; shell is its row in _bas_list *)
AddBasis(e, iatom, ngauss) ==
    LET shell == Len(e.bas_list) IN
    [e EXCEPT
       !.bas_list = Append(@, [iatom |-> iatom, ngauss |-> ngauss,
                               ptr_exp |-> e.ptr_env,
                               ptr_coeffs |-> e.ptr_env + ngauss]),
       !.env_list = (@ \o Items("alpha", iatom, shell, ngauss))
                       \o Items("coeff", iatom, shell, ngauss),
       !.ptr_env = PtrAfterBasis(@, ngauss),
       !.shell_to_gauss = Append(@, Last(@) + ngauss),
       !.shell_to_atom = Append(@, iatom)]

RECURSIVE AddBases(_, _, _, _)
AddBases(e, iatom, bases, j) ==
    IF j > Len(bases) THEN e
    ELSE AddBases(AddBasis(e, iatom, bases[j]), iatom, bases, j + 1)

(* an atom: the number of elements of its 1-D pos and, for each of its     *)
(* bases, the number of primitives                                         *)
AtomBases ==
    {[pos |-> p, bases |-> b] :
        p \in {NDIM - 1, NDIM},
        b \in UNION {[1..n -> 1..MaxGauss] : n \in 0..MaxShells}}

InitEnv ==
    /\ Parked
    /\ cg = CgIdle
    /\ vec = VecIdle
    /\ latch = LatchIdle
    /\ atm = AtmIdle
    /\ basis = BasisIdle
    /\ \E na \in 1..MaxAtoms :
       \E ab \in [1..na -> AtomBases] :
          env = [stage |-> "constructing", atombases |-> ab, iatom |-> 0,
                 ptr_env |-> ptr_env0, atm_list |-> <<>>,
                 env_list |-> Padding, bas_list |-> <<>>,
                 shell_to_atom |-> <<>>, shell_to_gauss |-> <<0>>,
                 nshells |-> <<>>]

(* one turn of the loop at lines 72-75: a call of _add_atom_and_basis *)
add_atom_and_basis ==
    /\ env.stage = "constructing"
    /\ env.iatom < Len(env.atombases)
    /\ LET atombasis == env.atombases[env.iatom + 1] IN
       IF atombasis.pos # NDIM
       THEN \* assert atombasis.pos.numel() == NDIM
            env' = [env EXCEPT !.stage = "raised"]
       ELSE LET e1 == AddAtom(env, env.iatom, atombasis)
                e2 == AddBases(e1, env.iatom, atombasis.bases, 1)
            IN  env' = [e2 EXCEPT !.nshells = Append(@, Len(atombasis.bases)),
                                  !.iatom = @ + 1]
    /\ UNCHANGED <<main, cg, vec, latch, atm, basis>>

(* line 76 *)
env_built ==
    /\ env.stage = "constructing"
    /\ env.iatom >= Len(env.atombases)
    /\ env' = [env EXCEPT !.stage = "built"]
    /\ UNCHANGED <<main, cg, vec, latch, atm, basis>>

NextEnv ==
    \/ add_atom_and_basis
    \/ env_built

SpecEnv == InitEnv /\ [][NextEnv]_vars

----------------------------------------------------------------------------
(* dqc/utils/datastruct.py: CGTOBasis.wfnormalize_.  A coefficient is      *)
(* modelled by the factors it carries: how many times it was divided by    *)
(* the square root of its primitive's Gaussian integral (which differs     *)
(* from one primitive to the next), and whether the whole vector has been  *)
(* scaled to unit overlap.                                                 *)
MaxAngmom == 1     \* largest angular momentum
MaxCalls == 3      \* largest number of calls of wfnormalize_
MaxDivided == 1    \* most divisions a coefficient of a new object carries

(* line 38: if self.normalized *)
NeverNormalized(b) == FALSE

AlreadyNormalized(b) == b.normalized

(* lines 41-51: the rescaled coefficients *)
Rescaled(coeffs) ==
    [divided |-> [k \in DOMAIN coeffs.divided |-> coeffs.divided[k] + 1],
     unit |-> TRUE]

InitBasis ==
    /\ Parked
    /\ cg = CgIdle
    /\ vec = VecIdle
    /\ latch = LatchIdle
    /\ atm = AtmIdle
    /\ env = EnvIdle
    /\ \E l \in 0..MaxAngmom, n \in 1..MaxGauss, f \in BOOLEAN, u \in BOOLEAN :
       \E d \in [1..n -> 0..MaxDivided] :
          basis = [stage |-> "created", angmom |-> l,
                   alphas |-> [k \in 1..n |-> k],
                   coeffs |-> [divided |-> d, unit |-> u],
                   normalized |-> f,
                   ncalls |-> 0,
                   returned |-> None]     \* what the last call returned

(* one call of wfnormalize_ *)
wfnormalize_ ==
    /\ basis.stage \in {"created", "called"}
    /\ basis.ncalls < MaxCalls
    /\ IF AlreadyNormalized(basis)
       THEN basis' = [basis EXCEPT !.stage = "called", !.ncalls = @ + 1,
                                   !.returned = "self"]
       ELSE basis' = [basis EXCEPT !.stage = "called", !.ncalls = @ + 1,
                                   !.coeffs = Rescaled(@),
                                   !.normalized = TRUE,
                                   !.returned = "self"]
    /\ UNCHANGED <<main, cg, vec, latch, atm, env>>

NextBasis == wfnormalize_

SpecBasis == InitBasis /\ [][NextBasis]_vars

----------------------------------------------------------------------------
(* Properties                                                              *)

KnownMethods == {s_davidson, s_lanczos, s_exacteig}
Iterative == {s_davidson, s_lanczos}
Finished == pc \in {"done", "backward", "backward_done"}
Raised(e) == outcome.status = "raise" /\ outcome.err = e

(* the call is a well-formed solve: square operator, a parameter tensor,   *)
(* an initial-vector strategy the generator knows                          *)
WellFormed ==
    /\ ShapeIsSquare(A.shape)
    /\ Len(params) > 0
    /\ InitBranch(lower(fwd_options.v_init)) # "raise"

(* C1: a forward configuration whose method (compared as forward compares  *)
(* it, lower-cased) is none of davidson, lanczos, exacteig makes forward   *)
(* raise its configuration error with nothing done before: the operator is *)
(* not applied, its shape and parameters are not queried, the generator is *)
(* neither seeded nor advanced, and no strategy is entered.                *)
C1_UnknownMethodFailsFirst ==
    (pc # "forward" /\ lower(fwd_options.method) \notin KnownMethods) =>
        /\ pc = "done"
        /\ Raised("RuntimeError")
        /\ calls = CallsInit
        /\ rng = rng_before
        /\ strategy = <<>>
        /\ loc = LocInit

C1_Witness ==
    /\ pc = "done"
    /\ fwd_options.method = s_jacobi
    /\ Raised("RuntimeError")

(* C2: a well-formed lanczos or davidson solve with 1 <= neig <= n whose   *)
(* stop test never succeeded (the loop was not left by break) returns an   *)
(* eigenpair result: exhausting max_niter raises nothing.                  *)
C2_BudgetExhaustionReturns ==
    (/\ pc = "done"
     /\ strategy \in Iterative
     /\ WellFormed
     /\ ~loc.stopped) => outcome.status = "ok"

(* C3: with an operator whose shape has unequal dimensions each strategy   *)
(* raises the shape error before the operator is applied and before an     *)
(* initial vector is generated (the generator is not touched).             *)
C3_NonSquareFailsFirst ==
    (/\ strategy \in KnownMethods
     /\ pc # "check_shape"
     /\ A.shape[1] # A.shape[2]) =>
        /\ pc = "done"
        /\ Raised("TypeError")
        /\ calls.apply = 0 /\ calls.precond = 0
        /\ calls.manual_seed = 0 /\ calls.randn = 0
        /\ loc.V = 0
        /\ rng = rng_before

C3_Witness ==
    /\ pc = "done"
    /\ strategy = s_davidson
    /\ A.shape[1] # A.shape[2]
    /\ Raised("TypeError")
    /\ calls.shape = 1

(* C4 as stated: eye, randn and rand are the only names with which a       *)
(* lanczos or davidson solve gets past the initial-vector generator.       *)
C4_OnlyThreeNames ==
    (strategy \in Iterative /\ loc.V > 0) =>
        lower(fwd_options.v_init) \in {s_eye, s_randn, s_rand}

(* C4 amended: the accepted names are eye, randn, rand and random          *)
(* (compared lower-cased); with any other v_init a lanczos or davidson     *)
(* solve that reaches the initial-vector generator raises its              *)
(* configuration error before the operator is applied and before the loop  *)
(* starts, and with an accepted name it does not raise that error.         *)
C4_UnknownVInitFailsFirst ==
    (strategy \in Iterative /\ calls.manual_seed > 0) =>
        IF lower(fwd_options.v_init) \in {s_eye, s_randn, s_rand, s_random}
        THEN ~Raised("ValueError") /\ loc.V > 0
        ELSE /\ pc = "done"
             /\ Raised("ValueError")
             /\ calls.apply = 0 /\ calls.precond = 0
             /\ loc.V = 0 /\ loc.i = 0 /\ loc.eigvalT = 0

C4_Witness ==
    /\ pc = "done"
    /\ strategy = s_davidson
    /\ fwd_options.v_init = s_ones
    /\ Raised("ValueError")
    /\ calls.manual_seed = 1

(* C5: whatever a strategy returns holds exactly neig eigenvalues and      *)
(* exactly neig eigenvector columns of length n, for every option set      *)
(* (nguess included).                                                      *)
C5_ReturnsNeigPairs ==
    (pc = "done" /\ outcome.status = "ok") =>
        /\ outcome.evals = neig
        /\ outcome.evecs = <<A.shape[1], neig>>

(* C6: the repeated call of lanczos or davidson with v_init = randn, and   *)
(* of exacteig, ends as the first call did (same result or same error,     *)
(* same initial basis, same probe, same number of iterations), whatever    *)
(* the state of the process-wide generator was before each call.           *)
C6_Deterministic ==
    (/\ run = 2
     /\ Finished
     /\ \/ strategy = s_exacteig
        \/ strategy \in Iterative /\ lower(fwd_options.v_init) = s_randn)
    => outcome = first

C6_Witness ==
    /\ run = 2
    /\ pc = "done"
    /\ strategy = s_davidson
    /\ fwd_options.v_init = s_randn
    /\ outcome.status = "ok"
    /\ outcome.v0 # <<0, 0>> /\ outcome.probe # <<0, 0>>
    /\ rng_before = 1
    /\ outcome = first

(* C7: after a call of any strategy the process-wide generator is in the   *)
(* state it was in before the call.                                        *)
C7_GeneratorUntouched ==
    (pc = "done" /\ outcome.status = "ok") => rng = rng_before

(* C8: every branch decision of a lanczos or davidson solve is one Boolean *)
(* for the whole batch, for every batch size: the condition on which       *)
(* davidson decides to switch its shift has one element, never one per     *)
(* batch element.                                                          *)
C8_OneBooleanPerDecision ==
    strategy \in Iterative => Len(loc.switch_cond) <= 1

(* C9: the working dtype is that of the parameter tensors whenever the     *)
(* parameter tuple is non-empty, and with an empty tuple and an operator   *)
(* that has parameters of its own the solve proceeds.                      *)
C9_DtypeFromParams ==
    /\ (loc.dtype # None /\ Len(params) > 0) => loc.dtype = params[1].dtype
    /\ (Len(params) = 0 /\ Len(A.parameters) > 0 /\ pc = "done")
          => ~Raised("IndexError")

(* C10: no step of a forward strategy or of the backward pass changes the  *)
(* operator handle or the parameter tuple (their attributes included).     *)
C10_InputsReadOnly ==
    [][A' = A /\ params' = params]_vars

C10_Witness ==
    /\ pc = "backward_done"
    /\ bwd.stage = "returned"
    /\ strategy = s_davidson
    /\ calls.apply > 0 /\ calls.precond > 0 /\ calls.shape > 0
    /\ calls.parameters > 0
    /\ Len(bwd.grads) = 4 + Len(params)

(* C11: the loop of lanczos and of davidson enters its body at most        *)
(* max_niter times and there is no other loop: while a strategy runs,      *)
(* either another iteration or its return is possible, and the operator    *)
(* has been applied at most twice per iteration by lanczos, at most twice  *)
(* per iteration (after the two applications before the loop) and the      *)
(* preconditioner at most once per iteration by davidson.                  *)
C11_IterationBudget ==
    (strategy \in Iterative /\ pc \in {"lanczos", "davidson", "done"}) =>
        /\ loc.bodies <= fwd_options.max_niter
        /\ loc.i <= loc.bodies
        /\ strategy = s_lanczos =>
              calls.apply <= 2 * loc.bodies /\ calls.precond = 0
        /\ strategy = s_davidson =>
              calls.apply <= 2 + 2 * loc.bodies /\ calls.precond <= loc.bodies
        /\ pc = "lanczos" => ENABLED (lanczos_iter \/ lanczos_return)
        /\ pc = "davidson" => ENABLED (davidson_iter \/ davidson_return)

C11_Witness ==
    /\ pc = "done"
    /\ strategy = s_davidson
    /\ outcome.status = "ok"
    /\ ~loc.stopped
    /\ loc.bodies = fwd_options.max_niter
    /\ loc.bodies >= 3
    /\ calls.apply = 2 + 2 * loc.bodies
    /\ calls.precond = loc.bodies

(* C13: a conjgrad solve ends: it never iterates more than max_niter       *)
(* times, while it runs either a step or its return is possible, it stops  *)
(* as soon as the residual is below min_eps or max_niter is reached, and   *)
(* on a singular system (posdef=False) it returns its estimate without     *)
(* having taken a step with a degenerate denominator.                      *)
C13_ConjgradEnds ==
    /\ cg.stage # "idle" =>
          /\ cg.k <= cg.max_niter
          /\ ~cg.divided_by_zero
    /\ cg.stage = "loop" => ENABLED (cg_iter \/ cg_return)
    /\ cg.stage = "returned" =>
          \/ cg.resid < min_eps
          \/ cg.k = cg.max_niter

C13_Witness ==
    /\ cg.stage = "returned"
    /\ ~cg.posdef
    /\ cg.floor > 0
    /\ cg.skipped > 0
    /\ cg.k = cg.max_niter
    /\ cg.resid >= min_eps

(* C14 as stated: every column of the projected gradient B, and of the     *)
(* re-orthogonalized solution, is orthogonal to every eigenvector column.  *)
C14_OrthogonalToSubspace ==
    /\ vec.stage \in {"projected", "solved", "done"} =>
          \A j, k \in DOMAIN vec.evecs : Dot(vec.B[j], vec.evecs[k]) = 0
    /\ vec.stage = "done" =>
          \A j, k \in DOMAIN vec.evecs : Dot(vec.gevecs[j], vec.evecs[k]) = 0

(* C14 amended: every column of the projected gradient B, and of the       *)
(* re-orthogonalized solution, is orthogonal to the eigenvector column of  *)
(* its own index; its components along the other eigenvectors are those    *)
(* of the incoming column.                                                 *)
C14_OrthogonalToOwnEigenvector ==
    /\ vec.stage \in {"projected", "solved", "done"} =>
          \A j, k \in DOMAIN vec.evecs :
              Dot(vec.B[j], vec.evecs[k]) =
                  IF k = j THEN 0 ELSE Dot(vec.grad_evecs[j], vec.evecs[k])
    /\ vec.stage = "done" =>
          \A j, k \in DOMAIN vec.evecs :
              Dot(vec.gevecs[j], vec.evecs[k]) =
                  IF k = j THEN 0 ELSE Dot(vec.solved[j], vec.evecs[k])

C14_Witness ==
    /\ vec.stage = "done"
    /\ Len(vec.evecs) = 2
    /\ Dot(vec.grad_evecs[1], vec.evecs[1]) # 0
    /\ Dot(vec.B[1], vec.evecs[2]) # 0
    /\ Dot(vec.solved[1], vec.evecs[1]) # 0
    /\ vec.gevecs[1] # vec.solved[1]

(* C15: lanczos starts checking convergence exactly when the basis, after  *)
(* orthonormalization, has neig columns: once an iteration has left a      *)
(* basis of at least neig columns, the projected matrix has been           *)
(* diagonalized.                                                           *)
C15_CheckStartsAtNeigColumns ==
    (strategy = s_lanczos /\ pc = "lanczos" /\ loc.bodies >= 1 /\ loc.V >= neig)
        => loc.eigvalT # 0

(* C16: in lanczos, at the start of every iteration i < max_niter reached  *)
(* before the stop test fires, the basis V has exactly i+1 columns.        *)
C16_BasisHasIPlusOneColumns ==
    (/\ strategy = s_lanczos
     /\ pc = "lanczos"
     /\ ~loc.stopped
     /\ loc.i < fwd_options.max_niter) => loc.V = loc.i + 1

(* an iteration of lanczos that reached its convergence check *)
LanczosChecked ==
    /\ strategy = s_lanczos
    /\ pc = "lanczos"
    /\ pc' = "lanczos"
    /\ loc'.bodies = loc.bodies + 1
    /\ loc.i + 1 >= neig

(* C17: an iteration of lanczos that reaches the check breaks the loop if  *)
(* and only if a record of an earlier checked iteration exists and the     *)
(* change since that record is below min_eps for every batch element; the  *)
(* first checked iteration never breaks; an iteration that does not break  *)
(* replaces the record by its own lowest neig Ritz values.                 *)
C17_LanczosStopRule ==
    [][LanczosChecked =>
         /\ loc'.stopped <=>
               /\ loc.prev_eigvals # 0
               /\ \A b \in 1..loc.nbatch : Dev(A, b, loc.i) < min_eps
         /\ loc.prev_eigvals = 0 => ~loc'.stopped
         /\ loc'.eig_iter = loc.i
         /\ ~loc'.stopped =>
               /\ loc'.prev_eigvals = Min(neig, loc'.eigvalT)
               /\ loc'.i = loc.i + 1
         /\ loc'.stopped => loc'.prev_eigvals = loc.prev_eigvals]_vars

C17_Witness ==
    /\ strategy = s_lanczos
    /\ loc.stopped
    /\ loc.nbatch = 2
    /\ loc.prev_eigvals = neig
    /\ loc.eig_iter = 2
    /\ outcome.status = "ok"

(* C18: at the start of every iteration i of davidson the basis V, the     *)
(* cached image AV and the counter nguess are each nguess0 + i*neig        *)
(* columns wide.                                                           *)
C18_SubspaceBookkeeping ==
    (strategy = s_davidson /\ pc = "davidson" /\ ~loc.stopped) =>
        /\ loc.V = loc.AV
        /\ loc.V = loc.nguess
        /\ loc.nguess = fwd_options.nguess + loc.i * neig

(* C19: an iteration of davidson that has diagonalized the projected       *)
(* matrix breaks the loop if and only if the maximum residual is below     *)
(* min_eps.                                                                *)
C19_StopOnResidualOnly ==
    [][(/\ strategy = s_davidson
        /\ pc = "davidson"
        /\ loc'.bodies = loc.bodies + 1
        /\ loc.V = loc.AV)
          => (loc'.stopped <=> MaxDevBelow(A, loc.nbatch, loc.i))]_vars

(* an iteration of davidson that handed a bias to the preconditioner *)
ShiftIteration ==
    latch.stage = "loop" /\ latch.i < latch.max_niter /\ latch' # latch

(* C20: the bias of an iteration is the estimate (as it stood when the     *)
(* iteration began) in every iteration up to and including the first one   *)
(* whose comparison is true, and the current Ritz values in every later    *)
(* one; the switch is set by that comparison and never reset; while not    *)
(* switched an entry of the estimate changes only where it exceeded the    *)
(* current Ritz value, and after the switch the estimate is left alone.    *)
C20_ShiftIsOneWayLatch ==
    [][ShiftIteration =>
         /\ latch'.z = IF latch'.first_small = -1 \/ latch.i <= latch'.first_small
                       THEN latch.min_eig_est
                       ELSE latch'.eigvalT
         /\ latch.shift_is_eigvalT => latch'.shift_is_eigvalT
         /\ latch'.shift_is_eigvalT <=> latch'.first_small # -1
         /\ latch'.first_small # latch.first_small =>
               /\ latch.first_small = -1
               /\ latch'.first_small = latch.i
               /\ latch'.small = <<TRUE>>
         /\ \A b \in 1..latch.nbatch, k \in 1..latch.neig :
               latch'.min_eig_est[b][k] # latch.min_eig_est[b][k] =>
                   /\ ~latch'.shift_is_eigvalT
                   /\ latch.min_eig_est[b][k] > latch'.eigvalT[b][k]]_vars

C20_Witness ==
    /\ latch.stage = "ended"
    /\ latch.first_small = 1
    /\ latch.i = 3
    /\ latch.z = latch.eigvalT
    /\ latch.z # latch.min_eig_est
    /\ latch.min_eig_est # Rows(latch.nbatch, [k \in 1..latch.neig |-> 1])
    /\ latch.min_eig_est # Rows(latch.nbatch, [k \in 1..latch.neig |-> 0])

(* a step of lsymeig_torchfcn.backward *)
BackwardStep == pc' \in {"backward", "backward_done"}

(* C21: every step of backward leaves the forward call as it ended (its    *)
(* locals, its result, what it saved, the generator); a backward call that *)
(* has returned applied the operator once under gradient tracking, to the  *)
(* detached eigenvectors, made one conjgrad call for -B with the           *)
(* preconditioner biased at the eigenvalues and posdef=False, made one     *)
(* reverse-mode pass seeded with gevals + gevecs, and returned four None   *)
(* followed by one gradient per parameter tensor.                          *)
C21_BackwardProtocol ==
    [][BackwardStep =>
         /\ loc' = loc /\ outcome' = outcome /\ ctx' = ctx /\ rng' = rng
         /\ strategy' = strategy /\ run' = run
         /\ calls'.manual_seed = calls.manual_seed
         /\ calls'.randn = calls.randn
         /\ calls'.shape = calls.shape
         /\ pc' = "backward_done" =>
               /\ bwd'.tracked = 1
               /\ bwd'.applied_to = "ctx.evecs.detach()"
               /\ bwd'.solves = 1
               /\ Len(bwd'.pcg) = 1
               /\ bwd'.pcg[1].B = "-B"
               /\ bwd'.pcg[1].biases = "evals"
               /\ ~bwd'.pcg[1].posdef
               /\ bwd'.passes = 1
               /\ bwd'.seed = "gevals + gevecs"
               /\ Len(bwd'.grads) = 4 + Len(params)
               /\ \A k \in 1..4 : bwd'.grads[k] = None
               /\ \A k \in 1..Len(params) : bwd'.grads[4 + k] = "grad"]_vars

C21_Witness ==
    /\ pc = "backward_done"
    /\ strategy = s_lanczos
    /\ loc.stopped
    /\ Len(params) = 1
    /\ bwd.passes = 1

(* C22: a call that exacteig has answered applied the operator once, to   *)
(* the na x na identity, diagonalized once, entered no loop body, neither  *)
(* seeded nor advanced the generator, and returned neig eigenvalues and    *)
(* na x neig eigenvectors: a result fixed by the operator's shape and neig *)
(* whatever max_niter, v_init and nguess are.                              *)
C22_ExactIsOneShot ==
    (strategy = s_exacteig /\ pc = "done" /\ outcome.status = "ok") =>
        /\ calls.apply = 1
        /\ calls.precond = 0
        /\ calls.manual_seed = 0
        /\ calls.randn = 0
        /\ rng = rng_before
        /\ loc.bodies = 0
        /\ loc.i = 0
        /\ loc.V = A.shape[1]
        /\ loc.eigvalT = A.shape[1]
        /\ outcome.evals = neig
        /\ outcome.evecs = <<A.shape[1], neig>>
        /\ outcome.v0 = <<0, 0>>
        /\ outcome.probe = <<0, 0>>

C22_Witness ==
    /\ strategy = s_exacteig
    /\ pc = "done"
    /\ outcome.status = "ok"
    /\ neig < A.shape[1]
    /\ InitBranch(lower(fwd_options.v_init)) = "raise"
    /\ fwd_options.max_niter = 1
    /\ loc.nbatch = 2

(* C23: a davidson call that entered its loop and has ended never broke   *)
(* the loop in iteration 0; with max_niter >= 2 it diagonalized the        *)
(* projected matrix in at least two iterations and expanded the subspace   *)
(* at least once; with max_niter = 1 it returned the Ritz pair of          *)
(* iteration 0 without having taken a stop decision.                       *)
C23_NoStopInFirstIteration ==
    (strategy = s_davidson /\ pc = "done" /\ loc.bodies >= 1) =>
        /\ loc.stopped => loc.eig_iter >= 1
        /\ fwd_options.max_niter >= 2 =>
              /\ loc.eigvalT # 0
              /\ loc.eig_iter >= 1
              /\ loc.i >= 1
        /\ fwd_options.max_niter = 1 =>
              /\ outcome.status = "ok"
              /\ loc.eig_iter = 0
              /\ ~loc.stopped

(* C24: inside the block the charge of every atom but ia is zero and ia's *)
(* is the one it had on entry; once the block is left, by return or by an  *)
(* exception of its body, the column is what it was on entry; whenever     *)
(* _int1e is between blocks, has returned or has been left by an           *)
(* exception, the column is the constructed one, and a returned _int1e     *)
(* entered the block once per atom for every shell pair.                   *)
C24_ChargesRestored ==
    /\ atm.stage = "inside" =>
          \A a \in 1..atm.natoms :
              atm.col[a] = IF a = atm.ia THEN atm.before[a] ELSE 0
    /\ (atm.stage \in {"loop", "raised", "returned"} /\ atm.entered > 0) =>
          atm.col = atm.before
    /\ atm.stage \in {"loop", "raised", "returned"} =>
          atm.col = atm.constructed
    /\ atm.stage = "returned" => atm.entered = atm.npairs * atm.natoms

C24_Witness ==
    /\ atm.stage = "raised"
    /\ atm.natoms = 2
    /\ atm.pair = 2
    /\ atm.ia = 2
    /\ atm.col = atm.constructed
    /\ atm.col[1] # atm.col[2]

(* the entry of the environment list a pointer designates *)
EnvAt(ptr) == env.env_list[ptr + 1]

(* C25: after every call of _add_atom_and_basis the write pointer is the   *)
(* length of the environment list; the coordinate pointer of every atom    *)
(* and the exponent and coefficient pointers of every shell designate the  *)
(* entries that hold that atom's coordinates and that shell's exponents    *)
(* and coefficients; shell_to_gauss starts at 0 and is the running sum of  *)
(* the primitive counts, and shell_to_atom has the atom of every shell.    *)
C25_EnvPointers ==
    env.stage # "idle" =>
        /\ env.ptr_env = Len(env.env_list)
        /\ Len(env.atm_list) = env.iatom
        /\ \A a \in 1..Len(env.atm_list) :
              /\ \A d \in 0..(NDIM - 1) :
                    EnvAt(env.atm_list[a].ptr_coord + d) = Datum("pos", a - 1, 0, d)
              /\ EnvAt(env.atm_list[a].ptr_zeta) = Datum("zeta", a - 1, 0, 0)
        /\ \A j \in 1..Len(env.bas_list) :
              LET b == env.bas_list[j] IN
              \A k \in 0..(b.ngauss - 1) :
                  /\ EnvAt(b.ptr_exp + k) = Datum("alpha", b.iatom, j - 1, k)
                  /\ EnvAt(b.ptr_coeffs + k) = Datum("coeff", b.iatom, j - 1, k)
        /\ Len(env.shell_to_gauss) = Len(env.bas_list) + 1
        /\ env.shell_to_gauss[1] = 0
        /\ \A j \in 1..Len(env.bas_list) :
              /\ env.shell_to_gauss[j + 1] =
                     env.shell_to_gauss[j] + env.bas_list[j].ngauss
              /\ env.shell_to_gauss[j] <= env.shell_to_gauss[j + 1]
        /\ Len(env.shell_to_atom) = Len(env.bas_list)
        /\ \A j \in 1..Len(env.bas_list) :
              env.shell_to_atom[j] = env.bas_list[j].iatom

C25_Witness ==
    /\ env.stage = "built"
    /\ Len(env.atm_list) = 2
    /\ Len(env.bas_list) = 3
    /\ env.shell_to_atom = <<0, 1, 1>>
    /\ env.shell_to_gauss = <<0, 2, 3, 5>>
    /\ env.ptr_env = ptr_env0 + 2 * (NDIM + 1) + 10

(* a call of wfnormalize_ *)
Normalizing == basis.stage # "idle" /\ basis'.ncalls = basis.ncalls + 1

(* C26: a call on a basis whose flag is False divides every coefficient    *)
(* once more, scales the vector to unit overlap and sets the flag; a call  *)
(* on a basis whose flag is True changes neither the coefficients nor the  *)
(* flag; every call returns the object itself and leaves alphas and angmom *)
(* alone, and no step takes the flag from True to False.                   *)
C26_NormalizeOnce ==
    [][/\ Normalizing =>
            /\ basis'.returned = "self"
            /\ basis'.alphas = basis.alphas
            /\ basis'.angmom = basis.angmom
            /\ basis'.normalized
            /\ basis.normalized => basis'.coeffs = basis.coeffs
            /\ ~basis.normalized =>
                  /\ basis'.coeffs.unit
                  /\ \A k \in DOMAIN basis.alphas :
                        basis'.coeffs.divided[k] = basis.coeffs.divided[k] + 1
       /\ (basis.stage # "idle" /\ basis.normalized) => basis'.normalized]_vars

C26_Witness ==
    /\ basis.stage = "called"
    /\ basis.ncalls = 3
    /\ basis.normalized
    /\ Len(basis.alphas) = 2
    /\ basis.coeffs.divided = <<1, 2>>
    /\ basis.coeffs.unit

====
